---------------------------- MODULE Spec2Model ----------------------------
(* A model of the completion engine of src/src/completers.c:               *)
(*   - the quoted/escaped word scanner and the escape/unescape rewriting   *)
(*     of rp_complete_quoted_word and word_add_completion_ex,              *)
(*   - the chain of completion sinks on one completion environment,        *)
(*   - the multi-root filename completer.                                  *)
(* C strings are sequences of one-character strings without the            *)
(* terminating NUL; offsets are 0-based as in the C code, so the byte at   *)
(* offset i of s is s[i+1] and the byte at offset Len(s) is NUL.           *)
(* All text of the model is single-byte (ASCII) text, for which a code     *)
(* point is one byte.                                                      *)
EXTENDS Integers, Sequences, FiniteSets, TLC

\* ------------------------------------------------------------------ bounds
\* Longest input text (prefix / replacement) drawn for the string functions.
MaxLen == 4
\* Longest prefix a completer passes to rp_complete_quoted_word in Spec.
MaxPrefix == 2
\* Deepest nesting of rp_complete_quoted_word calls on one environment.
MaxDepth == 2
\* Completer operations (proposals and word-completion calls) per request.
MaxOps == 3
\* Sink-to-sink forwarding steps after which the recursion is cut off.
MaxHops == 3
\* The largest `max` of a completion request (the store accepts max candidates).
MaxCandidates == 2
\* Entries of a directory besides "." and "..".
MaxEntries == 2
\* rp_complete_filename calls the registered completer makes in SpecFile.
MaxFileCalls == 1

\* ------------------------------------------------------------ characters
NUL == ""
ESC == "\\"
SP  == " "
SQ  == "'"
DQ  == "\""
\* The alphabet the inputs are drawn from: an ordinary character, a
\* separator, the escape character and the two quote characters.
Chars == {"a", SP, ESC, SQ, DQ}

\* rp_complete_quoted_word's defaults (and rp_complete_word's escape char).
default_non_word_chars == <<" ", "\t", "\r", "\n">>
default_quote_chars    == <<"'", "\"">>
default_escape_char    == ESC

RECURSIVE StrsOfLen(_)
StrsOfLen(n) ==
  IF n = 0 THEN {<<>>}
  ELSE {Append(s, c) : s \in StrsOfLen(n - 1), c \in Chars}

Strs(n) == UNION {StrsOfLen(k) : k \in 0..n}

\* --------------------------------------------------- C library / cursor
\* s[i] of a NUL-terminated string (i <= strlen(s)).
CharAt(s, i) == IF i < Len(s) THEN s[i + 1] ELSE NUL

\* strchr(s, c) != NULL: the terminating NUL counts as part of the string,
\* so strchr(s, 0) finds it.
StrChr(s, c) == c = NUL \/ \E i \in 1..Len(s) : s[i] = c

\* Byte offset from pos to the next code point boundary; 0 at the end.
str_next_ofs(s, len, pos) == IF pos < len THEN 1 ELSE 0

\* Byte offset from pos back to the previous code point boundary; 0 at 0.
str_prev_ofs(s, pos) == IF pos > 0 THEN 1 ELSE 0

\* The C string held by a buffer: the bytes before the first NUL.
RECURSIVE CStr(_)
CStr(buf) ==
  IF buf = <<>> \/ Head(buf) = NUL THEN <<>>
  ELSE <<Head(buf)>> \o CStr(Tail(buf))

\* ------------------------------------------- 1. look for a starting quote
\* The forward pass of rp_complete_quoted_word: the loop state after the
\* while loop, started at (pos, qpos, qcount).
RECURSIVE QuoteLoop(_, _, _, _, _, _, _)
QuoteLoop(prefix, len, escape_char, quote_chars, pos, qpos, qcount) ==
  IF pos >= len THEN [qpos |-> qpos, qcount |-> qcount]
  ELSE
    LET isEsc   == CharAt(prefix, pos) = escape_char
        pos1    == IF isEsc THEN pos + 1 ELSE pos          \* skip next char
        isQuote == ~isEsc /\ StrChr(quote_chars, CharAt(prefix, pos))
        qpos1   == IF isQuote
                   THEN (IF qcount % 2 = 1 THEN -1 ELSE pos)
                   ELSE qpos
        qcount1 == IF isQuote THEN qcount + 1 ELSE qcount
        ofs     == str_next_ofs(prefix, len, pos1)
    IN IF ofs <= 0 THEN [qpos |-> qpos1, qcount |-> qcount1]
       ELSE QuoteLoop(prefix, len, escape_char, quote_chars,
                      pos1 + ofs, qpos1, qcount1)

\* ------------------------ 2. no quoted word: look for non-word-chars
RECURSIVE BackLoop(_, _, _, _)
BackLoop(prefix, non_word_chars, escape_char, pos) ==
  IF pos <= 0 THEN pos
  ELSE
    LET ofs == str_prev_ofs(prefix, pos)
    IN IF ofs <= 0 THEN pos
       ELSE IF StrChr(non_word_chars, CharAt(prefix, pos - ofs))
               /\ (pos <= ofs \/ CharAt(prefix, pos - ofs - 1) # escape_char)
            THEN pos
            ELSE BackLoop(prefix, non_word_chars, escape_char, pos - ofs)

\* WordScan with a forward pass that does not skip the character after an
\* escape character.
WordScan_NoSkip(prefix, non_word_chars, escape_char, quote_chars) ==
  LET len == Len(prefix)
      q   == QuoteLoop(prefix, len, NUL, quote_chars, 0, -1, 0)
  IN IF q.qcount % 2 = 1
     THEN [quote |-> CharAt(prefix, q.qpos), pos |-> q.qpos + 1]
     ELSE [quote |-> NUL,
           pos   |-> BackLoop(prefix, non_word_chars, escape_char, len)]

\* Steps 1 and 2 together: the quote (NUL for none) and the offset pos of
\* the start of the word.
WordScan(prefix, non_word_chars, escape_char, quote_chars) ==
  LET len == Len(prefix)
      q   == IF quote_chars # <<>>
             THEN QuoteLoop(prefix, len, escape_char, quote_chars, 0, -1, 0)
             ELSE [qpos |-> -1, qcount |-> 0]
  IN IF q.qcount % 2 = 1
     THEN [quote |-> CharAt(prefix, q.qpos), pos |-> q.qpos + 1]
     ELSE [quote |-> NUL,
           pos   |-> BackLoop(prefix, non_word_chars, escape_char, len)]

\* ------------------------------------------------------ unescape prefix
\* rp_memmove(word + wpos, word + wpos + 1, n) on the buffer (with its NUL).
MemMoveDown(buf, wpos, n) ==
  [i \in 1..Len(buf) |->
     IF i - 1 >= wpos /\ i - 1 < wpos + n THEN buf[i + 1] ELSE buf[i]]

RECURSIVE UnescapeLoop(_, _, _, _, _)
UnescapeLoop(buf, wlen, non_word_chars, escape_char, wpos) ==
  IF wpos >= wlen THEN buf
  ELSE
    LET ofs == str_next_ofs(buf, wlen, wpos)
    IN IF ofs <= 0 THEN buf
       ELSE
         LET hit  == buf[wpos + 1] = escape_char
                     /\ StrChr(non_word_chars, buf[wpos + 2])
             buf1 == IF hit THEN MemMoveDown(buf, wpos, wlen - wpos) ELSE buf
         IN UnescapeLoop(buf1, wlen, non_word_chars, escape_char, wpos + ofs)

\* The word handed to the completer, from the raw word (prefix + pos).
UnescapeWord(raw, quote, non_word_chars, escape_char) ==
  IF quote = NUL
  THEN CStr(UnescapeLoop(Append(raw, NUL), Len(raw), non_word_chars,
                         escape_char, 0))
  ELSE raw

\* ------------------------------------------------- stringbuf operations
sbuf_char_at(sbuf, pos) == IF pos >= 0 /\ pos < Len(sbuf) THEN sbuf[pos + 1] ELSE NUL

sbuf_insert_char_at(sbuf, c, pos) ==
  SubSeq(sbuf, 1, pos) \o <<c>> \o SubSeq(sbuf, pos + 1, Len(sbuf))

sbuf_next(sbuf, pos) ==
  LET ofs == str_next_ofs(sbuf, Len(sbuf), pos)
  IN IF ofs <= 0 THEN -1 ELSE pos + ofs

\* ------------------- word_add_completion_ex: escape white space if unquoted
\* len is read once, before the loop, and not again.
RECURSIVE EscapeLoop(_, _, _, _, _)
EscapeLoop(sbuf, len, non_word_chars, escape_char, pos) ==
  IF pos >= len THEN sbuf
  ELSE
    LET hit   == StrChr(non_word_chars, sbuf_char_at(sbuf, pos))
        sbuf1 == IF hit THEN sbuf_insert_char_at(sbuf, escape_char, pos) ELSE sbuf
        pos1  == IF hit THEN pos + 1 ELSE pos
        pos2  == sbuf_next(sbuf1, pos1)
    IN IF pos2 <= 0 THEN sbuf1
       ELSE EscapeLoop(sbuf1, len, non_word_chars, escape_char, pos2)

\* The replacement word_add_completion_ex forwards.
Rewrite(replacement, quote, non_word_chars, escape_char) ==
  IF quote # NUL THEN Append(replacement, quote)
  ELSE EscapeLoop(replacement, Len(replacement), non_word_chars, escape_char, 0)

\* -------------------------------------------------------------- pointers
\* Values of the void* / function-pointer fields of the environment.
Ptr(kind, id) == [kind |-> kind, id |-> id]
NULLPTR  == Ptr("null", 0)
ENVPTR   == Ptr("env", 0)        \* cenv->env, the rp_env_t
USERARG  == Ptr("arg", 0)        \* the argument registered with the completer
WenvPtr(k) == Ptr("wenv", k)     \* &wenv of the call at stack depth k

\* An absent (NULL) display string.
NULLSTR == <<"NULL">>

VARIABLES
  pure,        \* the string functions applied to one input (SpecScan)
  pc,          \* where control is: "run", "sink", "done", "overflow", "undefined"
  cenv,        \* rp_completion_env_t: complete, closure, arg
  stack,       \* the active rp_complete_quoted_word calls, outermost first
  call,        \* the sink call in flight
  store,       \* completions_t: the candidates stored, and the request's max
  ret,         \* the boolean the last sink call returned to the completer
  ops,         \* completer operations performed so far
  proposal,    \* the last candidate a completer proposed, and at which depth
  lastReturn,  \* entry and exit sink of the last rp_complete_quoted_word return
  fclosure,    \* the filename_closure_t of the rp_complete_filename call
  fc,          \* the locals of filename_completer / filename_complete_indir
  handles,     \* the directory handles that are open
  dirs,        \* the directories enumerated in this call, with what they held
  emitted,     \* the candidates filename_complete_indir proposed in this call
  stopped,     \* the sink has returned false in this call
  afterStop    \* directory fetches, opens and proposals made after that

fileVars == <<fclosure, fc, handles, dirs, emitted, stopped, afterStop>>
engineVars == <<pc, cenv, stack, call, store, ret, ops, proposal, lastReturn,
                fclosure, fc, handles, dirs, emitted, stopped, afterStop>>
vars == <<pure, pc, cenv, stack, call, store, ret, ops, proposal, lastReturn,
          fclosure, fc, handles, dirs, emitted, stopped, afterStop>>

NoCall == [fn |-> "none", closure |-> NULLPTR, display |-> NULLSTR,
           replacement |-> <<>>, delete_before |-> 0, delete_after |-> 0,
           hops |-> 0, via |-> <<>>, result |-> TRUE]
NoProposal == [display |-> NULLSTR, replacement |-> <<>>, delete_before |-> 0,
               delete_after |-> 0, depth |-> -1]
NoReturn == [path |-> "none", entry_complete |-> "none", entry_closure |-> NULLPTR,
             exit_complete |-> "none", exit_closure |-> NULLPTR]
NoPure == [pc |-> "off"]
NoFclosure == [roots |-> <<>>, dir_sep |-> NUL]
NoFc == [word |-> <<>>, base |-> -1, dir_prefix |-> <<>>, abs |-> FALSE,
         root |-> -1, rootix |-> 0, root_dir |-> <<>>, d |-> 0,
         listing |-> <<>>, idx |-> 0, cont |-> TRUE, alloc |-> TRUE]

\* What the completers of the model propose.
Candidates ==
  [display : {NULLSTR, <<"d">>}, replacement : {<<"a">>, <<"a", SP>>},
   delete_before : 0..1, delete_after : 0..1]

\* ------------------------------------------------ rp_complete_quoted_word
\* The closure rp_complete_quoted_word sets up for a scanned prefix.
NewWenv(ce, prefix, scan, non_word_chars, escape_char) ==
  [quote                |-> scan.quote,
   non_word_chars       |-> non_word_chars,
   escape_char          |-> escape_char,
   delete_before_adjust |-> Len(prefix) - scan.pos,
   prev_complete        |-> ce.complete,
   prev_env             |-> ENVPTR]

\* Where control goes when `fun` is called.
FunEntry(fun) == IF fun = "filename_completer" THEN "fc_start" ELSE "run"

\* rp_complete_quoted_word up to the call of the completer `fun`, on the
\* environment ce. The three outcomes: the word is empty (return), an
\* allocation fails (return), or the sink is installed and `fun` is called
\* on the unescaped word.
rp_complete_quoted_word(ce, prefix, fun, non_word_chars0, escape_char, quote_chars0) ==
  LET non_word_chars == IF non_word_chars0 = NULLSTR
                        THEN default_non_word_chars ELSE non_word_chars0
      quote_chars    == IF quote_chars0 = NULLSTR
                        THEN default_quote_chars ELSE quote_chars0
      scan == WordScan(prefix, non_word_chars, escape_char, quote_chars)
      raw  == SubSeq(prefix, scan.pos + 1, Len(prefix))
      early(path) ==
        /\ lastReturn' = [path |-> path,
                          entry_complete |-> ce.complete,
                          entry_closure  |-> ce.closure,
                          exit_complete  |-> ce.complete,
                          exit_closure   |-> ce.closure]
        /\ cenv' = ce
        /\ UNCHANGED <<pc, stack>>
  IN
  /\ ops' = ops + 1
  /\ call' = NoCall
  /\ UNCHANGED <<store, ret, proposal>>
  /\ \/ /\ Len(prefix) = scan.pos            \* stop if empty word
        /\ early("empty")
     \/ /\ Len(prefix) # scan.pos            \* mem_strdup or sbuf_new fails
        /\ early("alloc")
     \/ /\ Len(prefix) # scan.pos
        /\ stack' = Append(stack,
             [prefix |-> prefix, fun |-> fun, pos |-> scan.pos,
              word |-> UnescapeWord(raw, scan.quote, non_word_chars, escape_char),
              wenv |-> NewWenv(ce, prefix, scan, non_word_chars, escape_char),
              entry_complete |-> ce.complete,
              entry_closure  |-> ce.closure])
        /\ cenv' = [ce EXCEPT !.complete = "word_add_completion_ex",
                              !.closure  = WenvPtr(Len(stack) + 1)]
        /\ pc' = FunEntry(fun)
        /\ UNCHANGED lastReturn

\* restore the original environment (after `fun` returned) and return.
RestoreClosure(wenv) == wenv.prev_env

Restore ==
  LET f == stack[Len(stack)]
  IN /\ cenv' = [cenv EXCEPT !.complete = f.wenv.prev_complete,
                             !.closure  = RestoreClosure(f.wenv)]
     /\ stack' = SubSeq(stack, 1, Len(stack) - 1)
     /\ lastReturn' = [path |-> "normal",
                       entry_complete |-> f.entry_complete,
                       entry_closure  |-> f.entry_closure,
                       exit_complete  |-> cenv'.complete,
                       exit_closure   |-> cenv'.closure]

\* rp_complete_word
rp_complete_word(prefix, fun) ==
  rp_complete_quoted_word(cenv, prefix, fun, NULLSTR, default_escape_char, NULLSTR)

\* ---------------------------------------------------------------- sinks
\* rp_add_completion_ex: hand a candidate to the active sink.
rp_add_completion(c) ==
  /\ call' = [fn |-> cenv.complete, closure |-> cenv.closure,
              display |-> c.display, replacement |-> c.replacement,
              delete_before |-> c.delete_before, delete_after |-> c.delete_after,
              hops |-> 0, via |-> <<>>, result |-> TRUE]
  /\ proposal' = [display |-> c.display, replacement |-> c.replacement,
                  delete_before |-> c.delete_before,
                  delete_after |-> c.delete_after, depth |-> Len(stack)]
  /\ pc' = "sink"

\* The closure argument word_add_completion_ex passes on (line 54).
ForwardedClosure(closure, wenv) == closure

\* The delete_before word_add_completion_ex passes on.
ForwardedDeleteBefore(wenv, delete_before) ==
  wenv.delete_before_adjust + delete_before

\* The display word_add_completion_ex passes on.
ForwardedDisplay(display, replacement) ==
  IF display # NULLSTR THEN display ELSE replacement

\* word_add_completion_ex running with `wenv` as its closure: the call of
\* the previous completion function it makes.
word_add_completion_ex(c, wenv, via) ==
  [fn            |-> wenv.prev_complete,
   closure       |-> ForwardedClosure(c.closure, wenv),
   display       |-> ForwardedDisplay(c.display, c.replacement),
   replacement   |-> Rewrite(c.replacement, wenv.quote, wenv.non_word_chars,
                             wenv.escape_char),
   delete_before |-> ForwardedDeleteBefore(wenv, c.delete_before),
   delete_after  |-> c.delete_after,
   hops          |-> c.hops + 1,
   via           |-> via,
   result        |-> TRUE]

\* The closure points to the word_closure_t of an active call.
LiveWenv(p) == p.kind = "wenv" /\ p.id \in 1..Len(stack)

SinkWord ==
  /\ pc = "sink" /\ call.fn = "word_add_completion_ex"
  /\ call.hops < MaxHops
  /\ LiveWenv(call.closure)
  /\ call' = word_add_completion_ex(call, stack[call.closure.id].wenv,
                                    Append(call.via, call.closure.id))
  /\ UNCHANGED <<pure, pc, cenv, stack, store, ret, ops, proposal, lastReturn>>
  /\ UNCHANGED fileVars

\* What a word_closure_t read through a pointer to something else may hold.
GarbageWenv ==
  [quote : {NUL, SQ}, non_word_chars : {default_non_word_chars},
   escape_char : {ESC}, delete_before_adjust : 0..1,
   prev_complete : {"prim_add_completion", "word_add_completion_ex"},
   prev_env : {ENVPTR}]

\* word_add_completion_ex called with a closure that is no word_closure_t
\* (the rp_env_t, or NULL): undefined behaviour. It crashes, or runs on
\* whatever the fields happen to hold.
SinkWordUndefined ==
  /\ pc = "sink" /\ call.fn = "word_add_completion_ex"
  /\ call.hops < MaxHops
  /\ ~LiveWenv(call.closure)
  /\ \/ /\ pc' = "undefined"
        /\ call' = NoCall
     \/ /\ \E g \in GarbageWenv :
             call' = word_add_completion_ex(call, g, Append(call.via, 0))
        /\ pc' = pc
  /\ UNCHANGED <<pure, cenv, stack, store, ret, ops, proposal, lastReturn>>
  /\ UNCHANGED fileVars

\* The forwarding does not end: the recursion is cut off here.
SinkOverflow ==
  /\ pc = "sink" /\ call.fn = "word_add_completion_ex"
  /\ call.hops >= MaxHops
  /\ pc' = "overflow"
  /\ UNCHANGED <<pure, cenv, stack, call, store, ret, ops, proposal, lastReturn>>
  /\ UNCHANGED fileVars

\* completions_add: reject a duplicate replacement and anything over the cap.
completions_add(cms, c) ==
  IF Len(cms.elems) >= cms.max
     \/ \E i \in 1..Len(cms.elems) : cms.elems[i].replacement = c.replacement
  THEN [cms |-> cms, ok |-> FALSE]
  ELSE [cms |-> [cms EXCEPT !.elems =
                   Append(cms.elems,
                          [display |-> c.display, replacement |-> c.replacement,
                           delete_before |-> c.delete_before,
                           delete_after |-> c.delete_after])],
        ok |-> TRUE]

\* The boolean word_add_completion_ex returns, given the one its call of the
\* previous completion function returned.
SinkResult(r) == r

\* The primitive sink (the candidate store) takes the call; its boolean goes
\* back through every forwarding layer to the completer.
SinkPrim ==
  /\ pc = "sink" /\ call.fn = "prim_add_completion"
  /\ LET r == completions_add(store, call)
     IN /\ store' = r.cms
        /\ ret' = IF call.hops > 0 THEN SinkResult(r.ok) ELSE r.ok
  /\ call' = [call EXCEPT !.fn = "returned",
                          !.result = completions_add(store, call).ok]
  /\ pc' = IF Len(stack) > 0 /\ stack[Len(stack)].fun = "filename_completer"
           THEN "fc_added" ELSE "run"
  /\ UNCHANGED <<pure, cenv, stack, ops, proposal, lastReturn>>
  /\ UNCHANGED fileVars

\* ------------------------------------------------------------ completers
\* A completer (the registered one at depth 0, or a `fun` passed to
\* rp_complete_word) proposes a candidate.
UserPropose ==
  /\ pc = "run" /\ ops < MaxOps
  /\ \E c \in Candidates : rp_add_completion(c)
  /\ ops' = ops + 1
  /\ UNCHANGED <<pure, cenv, stack, store, ret, lastReturn>>
  /\ UNCHANGED fileVars

\* A completer calls rp_complete_word on a prefix.
UserCompleteWord ==
  /\ pc = "run" /\ ops < MaxOps /\ Len(stack) < MaxDepth
  /\ \E prefix \in Strs(MaxPrefix) : rp_complete_word(prefix, "user")
  /\ UNCHANGED pure
  /\ UNCHANGED fileVars

\* The `fun` of the innermost rp_complete_quoted_word call returns.
UserReturn ==
  /\ pc = "run" /\ Len(stack) > 0
  /\ Restore
  /\ call' = NoCall
  /\ UNCHANGED <<pure, pc, store, ret, ops, proposal>>
  /\ UNCHANGED fileVars

\* The registered completer returns: the request is over.
TopReturn ==
  /\ pc = "run" /\ Len(stack) = 0
  /\ pc' = "done"
  /\ call' = NoCall
  /\ UNCHANGED <<pure, cenv, stack, store, ret, ops, proposal, lastReturn>>
  /\ UNCHANGED fileVars

\* ------------------------------------------------------ file completion
\* The separators and quotes rp_complete_filename completes with (without
\* the backquote of the C string, which no text of the model holds).
file_non_word_chars ==
  <<" ", "\t", "\r", "\n", "@", "$", ">", "<", "=", ";", "|", "&", "{", "(">>
file_quote_chars == <<"'", "\"">>

\* Directory entry names; those of DirNames are directories.
DOT    == <<".">>
DOTDOT == <<".", ".">>
PlainNames == {<<"l", "i">>, <<"l", "o">>, <<"x">>}
DirNames   == {<<"l", "i">>}

RECURSIVE DistinctSeqs(_, _)
DistinctSeqs(S, n) ==
  IF n = 0 THEN {<<>>}
  ELSE {<<>>} \cup
       UNION {{<<x>> \o t : t \in DistinctSeqs(S \ {x}, n - 1)} : x \in S}

\* What a directory that opens may hold, in readdir order.
Listings ==
  {dots \o t : dots \in {<<>>, <<DOT, DOTDOT>>},
               t \in DistinctSeqs(PlainNames, MaxEntries)}

\* The inputs of rp_complete_filename.
FilePrefixes == {<<>>, <<"l">>, <<SQ, "l">>, <<"d", "/">>, <<"/">>}
RootLists    == {NULLSTR, <<".", ";", "u">>}
DirSeps      == {NUL, "/"}

rp_starts_with(str, prefix) ==
  Len(prefix) <= Len(str) /\ SubSeq(str, 1, Len(prefix)) = prefix

\* strrchr(str, c): the offset of the last c, -1 for NULL.
StrRChr(str, c) ==
  IF \E i \in 1..Len(str) : str[i] = c
  THEN (CHOOSE i \in 1..Len(str) :
          str[i] = c /\ \A j \in (i + 1)..Len(str) : str[j] # c) - 1
  ELSE -1

\* strchr(str + from, c): the offset of the first c at or after from, -1 for NULL.
StrChrFrom(str, from, c) ==
  IF \E i \in (from + 1)..Len(str) : str[i] = c
  THEN (CHOOSE i \in (from + 1)..Len(str) :
          str[i] = c /\ \A j \in (from + 1)..(i - 1) : str[j] # c) - 1
  ELSE -1

os_path_is_absolute(path) == CharAt(path, 0) = "/"

os_is_dir(name) == name \in DirNames

\* rp_complete_filename: the closure is hung on cenv->arg and the word
\* completion runs filename_completer.
rp_complete_filename(prefix, dir_sep, roots) ==
  /\ fclosure' = [roots   |-> IF roots = NULLSTR THEN <<".">> ELSE roots,
                  dir_sep |-> dir_sep]
  /\ rp_complete_quoted_word([cenv EXCEPT !.arg = Ptr("fclosure", 1)], prefix,
                             "filename_completer", file_non_word_chars,
                             default_escape_char, file_quote_chars)

\* The registered completer calls rp_complete_filename.
TopCompleteFilename ==
  /\ pc = "run" /\ Len(stack) = 0 /\ ops < MaxFileCalls
  /\ \E prefix \in FilePrefixes, dir_sep \in DirSeps, roots \in RootLists :
       rp_complete_filename(prefix, dir_sep, roots)
  /\ fc' = NoFc
  /\ dirs' = <<>>
  /\ emitted' = <<>>
  /\ stopped' = FALSE
  /\ afterStop' = 0
  /\ UNCHANGED <<pure, handles>>

\* filename_completer up to the first directory: split the prefix in
\* dir_prefix / base, and take the absolute path or the first root.
\* fc.base is the offset of base in the word, -1 when base is NULL.
FC_Start ==
  /\ pc = "fc_start"
  /\ LET word   == stack[Len(stack)].word
         slash  == StrRChr(word, "/")
         base   == IF slash >= 0 THEN slash + 1 ELSE -1
         dir_prefix == IF base >= 0 THEN SubSeq(word, 1, base) ELSE <<>>
         f      == [NoFc EXCEPT !.word = word, !.base = base,
                                !.dir_prefix = dir_prefix]
     IN \/ /\ fc' = [f EXCEPT !.alloc = FALSE]  \* root_dir or dir_prefix is NULL
           /\ pc' = "fc_return"
        \/ /\ os_path_is_absolute(word)
           /\ fc' = [f EXCEPT !.abs = TRUE,
                              !.root_dir = IF base >= 0 THEN SubSeq(word, 1, base)
                                           ELSE <<>>]
           /\ pc' = "fc_open"
        \/ /\ ~os_path_is_absolute(word)
           /\ fc' = [f EXCEPT !.root = 0]
           /\ pc' = "fc_root"
  /\ UNCHANGED <<pure, cenv, stack, call, store, ret, ops, proposal, lastReturn>>
  /\ UNCHANGED <<fclosure, handles, dirs, emitted, stopped, afterStop>>

\* A root loop that ends after the first root.
NextRoot_FirstOnly(roots, root) == -1

\* The root loop of filename_completer: the root (an offset in roots, -1 for
\* NULL) after this round.
NextRoot(roots, root) ==
  LET next == StrChrFrom(roots, root, ";")
  IN IF next = -1 THEN -1 ELSE next + 1

\* The full root in root_dir, with the dir_prefix added to it.
RootDir(roots, root, word, base) ==
  LET next == StrChrFrom(roots, root, ";")
      r    == IF next = -1 THEN SubSeq(roots, root + 1, Len(roots))
              ELSE SubSeq(roots, root + 1, next)
  IN r \o <<"/">> \o (IF base >= 0 THEN SubSeq(word, 1, base - 1) ELSE <<>>)

\* One round of the while (root != NULL) loop, up to the call of
\* filename_complete_indir; or the end of the loop.
FC_Root ==
  /\ pc = "fc_root"
  /\ IF fc.root = -1
     THEN /\ pc' = "fc_return"
          /\ fc' = fc
     ELSE /\ fc' = [fc EXCEPT !.root_dir = RootDir(fclosure.roots, fc.root,
                                                  fc.word, fc.base),
                              !.root = NextRoot(fclosure.roots, fc.root),
                              !.rootix = fc.rootix + 1]
          /\ pc' = "fc_open"
  /\ UNCHANGED <<pure, cenv, stack, call, store, ret, ops, proposal, lastReturn>>
  /\ UNCHANGED <<fclosure, handles, dirs, emitted, stopped, afterStop>>

\* Where filename_complete_indir returns to.
AfterIndir == IF fc.abs THEN "fc_return" ELSE "fc_root"

\* What os_findfirst leaves open when its first os_findnext finds no entry.
FirstFetchFailed(hs, d) == hs \cup {d}

\* filename_complete_indir: cont = true and os_findfirst. The directory does
\* not open, or it opens and holds one of the Listings.
FC_Open ==
  /\ pc = "fc_open"
  /\ afterStop' = IF stopped THEN afterStop + 1 ELSE afterStop
  /\ LET d == <<ops, Len(dirs) + 1>>
     IN \/ /\ dirs' = Append(dirs, [root_dir |-> fc.root_dir, rootix |-> fc.rootix,
                                    opened |-> FALSE, listing |-> <<>>])
           /\ fc' = [fc EXCEPT !.cont = TRUE]
           /\ pc' = AfterIndir
           /\ UNCHANGED handles
        \/ \E l \in Listings :
             /\ dirs' = Append(dirs, [root_dir |-> fc.root_dir, rootix |-> fc.rootix,
                                      opened |-> TRUE, listing |-> l])
             /\ IF l = <<>>
                THEN /\ handles' = FirstFetchFailed(handles, d)
                     /\ fc' = [fc EXCEPT !.cont = TRUE, !.d = d, !.listing = l]
                     /\ pc' = AfterIndir
                ELSE /\ handles' = handles \cup {d}
                     /\ fc' = [fc EXCEPT !.cont = TRUE, !.d = d, !.listing = l,
                                         !.idx = 1]
                     /\ pc' = "fc_entry"
  /\ UNCHANGED <<pure, cenv, stack, call, store, ret, ops, proposal, lastReturn>>
  /\ UNCHANGED <<fclosure, emitted, stopped>>

\* The entry is one to propose.
EntryMatches(name, base_prefix) ==
  name # DOT /\ name # DOTDOT /\ rp_starts_with(name, base_prefix)

\* The candidate for an entry: dir_prefix + name, and dir_sep after a directory.
EntryCandidate(dir_prefix, name, dir_sep) ==
  dir_prefix \o name
    \o (IF dir_sep # NUL /\ os_is_dir(name) THEN <<dir_sep>> ELSE <<>>)

\* The base prefix filename_completer passes: base, or the prefix without one.
BasePrefix == IF fc.base >= 0 THEN SubSeq(fc.word, fc.base + 1, Len(fc.word))
              ELSE fc.word

\* The body of the do loop for the current entry.
FC_Entry ==
  /\ pc = "fc_entry"
  /\ LET name == fc.listing[fc.idx]
     IN IF EntryMatches(name, BasePrefix)
        THEN /\ rp_add_completion(
                  [display |-> NULLSTR,
                   replacement |-> EntryCandidate(fc.dir_prefix, name,
                                                  fclosure.dir_sep),
                   delete_before |-> 0, delete_after |-> 0])
             /\ emitted' = Append(emitted, [rootix |-> fc.rootix, name |-> name,
                                            ok |-> TRUE])
             /\ afterStop' = IF stopped THEN afterStop + 1 ELSE afterStop
        ELSE /\ pc' = "fc_next"
             /\ UNCHANGED <<call, proposal, emitted, afterStop>>
  /\ UNCHANGED <<pure, cenv, stack, store, ret, ops, lastReturn>>
  /\ UNCHANGED <<fclosure, fc, handles, dirs, stopped>>

\* cont = rp_add_completion(...)
FC_Added ==
  /\ pc = "fc_added"
  /\ fc' = [fc EXCEPT !.cont = ret]
  /\ emitted' = [emitted EXCEPT ![Len(emitted)].ok = ret]
  /\ stopped' = (stopped \/ ~ret)
  /\ pc' = "fc_next"
  /\ UNCHANGED <<pure, cenv, stack, call, store, ret, ops, proposal, lastReturn>>
  /\ UNCHANGED <<fclosure, handles, dirs, afterStop>>

\* The loop goes on: cont && os_findnext(d, &entry).
LoopGoesOn(cont, idx, listing) == cont /\ idx < Len(listing)

\* while (cont && os_findnext(d, &entry)); os_findclose(d); return cont.
FC_Next ==
  /\ pc = "fc_next"
  /\ afterStop' = IF fc.cont /\ stopped THEN afterStop + 1 ELSE afterStop
  /\ IF LoopGoesOn(fc.cont, fc.idx, fc.listing)
     THEN /\ fc' = [fc EXCEPT !.idx = fc.idx + 1]
          /\ pc' = "fc_entry"
          /\ UNCHANGED handles
     ELSE /\ handles' = handles \ {fc.d}
          /\ pc' = AfterIndir
          /\ fc' = fc
  /\ UNCHANGED <<pure, cenv, stack, call, store, ret, ops, proposal, lastReturn>>
  /\ UNCHANGED <<fclosure, dirs, emitted, stopped>>

\* filename_completer returns, rp_complete_quoted_word restores the sink and
\* returns, and so does rp_complete_filename.
FC_Return ==
  /\ pc = "fc_return"
  /\ Restore
  /\ call' = NoCall
  /\ pc' = "run"
  /\ UNCHANGED <<pure, store, ret, ops, proposal>>
  /\ UNCHANGED fileVars

\* The environment completions_generate hands to the registered completer.
InitEngine ==
  /\ pc = "run"
  /\ cenv \in [complete : {"prim_add_completion"},
               closure  : {NULLPTR, ENVPTR},
               arg      : {USERARG}]
  /\ stack = <<>>
  /\ call = NoCall
  /\ store \in [max : 1..MaxCandidates, elems : {<<>>}]
  /\ ret = TRUE
  /\ ops = 0
  /\ proposal = NoProposal
  /\ lastReturn = NoReturn
  /\ fclosure = NoFclosure
  /\ fc = NoFc
  /\ handles = {}
  /\ dirs = <<>>
  /\ emitted = <<>>
  /\ stopped = FALSE
  /\ afterStop = 0

Init == pure = NoPure /\ InitEngine

Next ==
  \/ UserPropose
  \/ UserCompleteWord
  \/ UserReturn
  \/ TopReturn
  \/ SinkWord
  \/ SinkWordUndefined
  \/ SinkOverflow
  \/ SinkPrim

Spec == Init /\ [][Next]_vars

\* The registered completer completes file names.
NextFile ==
  \/ TopCompleteFilename
  \/ FC_Start
  \/ FC_Root
  \/ FC_Open
  \/ FC_Entry
  \/ FC_Added
  \/ FC_Next
  \/ FC_Return
  \/ SinkWord
  \/ SinkPrim
  \/ TopReturn

SpecFile == Init /\ [][NextFile]_vars

\* ------------------------------------------------- the string functions
\* SpecScan applies the scanner and the two rewritings to one input text w:
\* w as the prefix of rp_complete_quoted_word (scan, then unescape of the
\* word), w as a replacement handed to word_add_completion_ex in unquoted
\* mode (escape), and the escaped text unescaped again.
InitScan ==
  /\ pure \in [pc : {"input"}, w : Strs(MaxLen), quote : {NUL}, pos : {0},
               word : {<<>>}, escaped : {<<>>}, back : {<<>>}]
  /\ pc = "done"
  /\ cenv = [complete |-> "prim_add_completion", closure |-> NULLPTR,
             arg |-> USERARG]
  /\ stack = <<>>
  /\ call = NoCall
  /\ store = [max |-> 1, elems |-> <<>>]
  /\ ret = TRUE
  /\ ops = 0
  /\ proposal = NoProposal
  /\ lastReturn = NoReturn
  /\ fclosure = NoFclosure
  /\ fc = NoFc
  /\ handles = {}
  /\ dirs = <<>>
  /\ emitted = <<>>
  /\ stopped = FALSE
  /\ afterStop = 0

\* rp_complete_quoted_word's steps 1, 2 and "unescape prefix" on w.
PureScan ==
  /\ pure.pc = "input"
  /\ LET scan == WordScan(pure.w, default_non_word_chars, default_escape_char,
                          default_quote_chars)
         raw  == SubSeq(pure.w, scan.pos + 1, Len(pure.w))
     IN pure' = [pure EXCEPT !.pc = "scanned", !.quote = scan.quote,
                             !.pos = scan.pos,
                             !.word = UnescapeWord(raw, scan.quote,
                                        default_non_word_chars,
                                        default_escape_char)]
  /\ UNCHANGED engineVars

\* word_add_completion_ex's rewriting of the replacement w, unquoted.
PureEscape ==
  /\ pure.pc = "scanned"
  /\ pure' = [pure EXCEPT !.pc = "escaped",
                          !.escaped = Rewrite(pure.w, NUL, default_non_word_chars,
                                              default_escape_char)]
  /\ UNCHANGED engineVars

\* The escaped text as the raw word of an unquoted completion.
PureUnescape ==
  /\ pure.pc = "escaped"
  /\ pure' = [pure EXCEPT !.pc = "roundtrip",
                          !.back = UnescapeWord(pure.escaped, NUL,
                                                default_non_word_chars,
                                                default_escape_char)]
  /\ UNCHANGED engineVars

NextScan == PureScan \/ PureEscape \/ PureUnescape

SpecScan == InitScan /\ [][NextScan]_vars

\* ------------------------------------------------------------------ claims
Scanned == pure.pc \in {"scanned", "escaped", "roundtrip"}

\* Offset i of s holds the character skipped after an escape character: the
\* character before it is an escape character that is not itself skipped.
RECURSIVE Skipped(_, _)
Skipped(s, i) ==
  i >= 1 /\ CharAt(s, i - 1) = default_escape_char /\ ~Skipped(s, i - 1)

\* The offsets of the quote characters of s that count.
QuoteOffsets(s) ==
  {i \in 0..(Len(s) - 1) :
     StrChr(default_quote_chars, CharAt(s, i)) /\ ~Skipped(s, i)
     /\ CharAt(s, i) # default_escape_char}

MaxOf(S) == CHOOSE m \in S : \A x \in S : x <= m

\* C2: count the quote characters of the prefix that are not the character
\* skipped after an escape_char. If the count is odd the word is completed
\* quoted, with quote the character at the last opening quote and the word
\* starting right after it; if the count is even, unquoted (quote = 0).
C2_QuoteParity ==
  Scanned =>
    LET Q == QuoteOffsets(pure.w)
    IN IF Cardinality(Q) % 2 = 1
       THEN /\ pure.quote = CharAt(pure.w, MaxOf(Q))
            /\ pure.pos = MaxOf(Q) + 1
       ELSE pure.quote = NUL

\* An odd count: one double quote that counts, and a quote character of the
\* other kind that is skipped after an escape character.
C2_Witness ==
  /\ Scanned
  /\ Cardinality(QuoteOffsets(pure.w)) = 1
  /\ \E i \in 0..(Len(pure.w) - 1) :
       /\ Skipped(pure.w, i)
       /\ StrChr(default_quote_chars, CharAt(pure.w, i))
       /\ CharAt(pure.w, i) # pure.quote
  /\ pure.quote = DQ

\* s with the escape character inserted before every member of
\* non_word_chars, and nothing else changed.
RECURSIVE EscapedEvery(_)
EscapedEvery(s) ==
  IF s = <<>> THEN <<>>
  ELSE (IF StrChr(default_non_word_chars, Head(s))
        THEN <<default_escape_char, Head(s)>> ELSE <<Head(s)>>)
       \o EscapedEvery(Tail(s))

\* C3: in unquoted mode the replacement forwarded is the proposed one with
\* escape_char inserted immediately before every code point that is a
\* member of non_word_chars, wherever and however many, and no other change.
C3_EscapeEvery ==
  pure.pc \in {"escaped", "roundtrip"} => pure.escaped = EscapedEvery(pure.w)

\* s without those escape characters that are immediately followed by a
\* member of non_word_chars; a final escape character stays.
RECURSIVE UnescapedExactly(_)
UnescapedExactly(s) ==
  IF s = <<>> THEN <<>>
  ELSE IF Head(s) = default_escape_char /\ Len(s) >= 2
          /\ StrChr(default_non_word_chars, s[2])
       THEN UnescapedExactly(Tail(s))
       ELSE <<Head(s)>> \o UnescapedExactly(Tail(s))

\* C7: in unquoted mode the word passed to the completer is the raw word
\* with exactly those escape_char removed that are immediately followed by
\* a member of non_word_chars; every other byte is kept, an escape_char
\* that is the final byte of the word included.
C7_UnescapeExactly ==
  (Scanned /\ pure.quote = NUL) =>
    pure.word = UnescapedExactly(SubSeq(pure.w, pure.pos + 1, Len(pure.w)))

\* s holds an escape character directly followed by a separator.
HasEscapedSeparator(s) ==
  \E i \in 1..(Len(s) - 1) :
    s[i] = default_escape_char /\ StrChr(default_non_word_chars, s[i + 1])

\* C6: round trip: a word w with no escape character directly followed by
\* a separator is what unescaping the escaped w yields.
C6_RoundTrip ==
  (pure.pc = "roundtrip" /\ ~HasEscapedSeparator(pure.w)) => pure.back = pure.w

NoDuplicates(seq) ==
  \A i, j \in 1..Len(seq) : i # j => seq[i] # seq[j]

\* C4: every candidate (display, replacement, delete_before, delete_after)
\* proposed by the completer that rp_complete_quoted_word wraps makes exactly
\* one call of the outer sink (the sink active on entry), with display the
\* given display or else the proposed replacement, with delete_before
\* increased by len(prefix) - word_start, and with delete_after unchanged;
\* the boolean the outer sink returns is what the completer gets back.
C4_OuterSinkCall ==
  proposal.depth >= 1 =>
    /\ pc # "undefined"
    /\ (call.fn # "none" /\ call.hops = 1) =>
         LET f == stack[proposal.depth]
         IN /\ call.fn \in {f.entry_complete, "returned"}
            /\ call.display = (IF proposal.display # NULLSTR
                               THEN proposal.display ELSE proposal.replacement)
            /\ call.delete_before =
                 proposal.delete_before + (Len(f.prefix) - f.pos)
            /\ call.delete_after = proposal.delete_after
    /\ (call.fn = "returned" /\ call.hops >= 1) => ret = call.result

\* C5: after rp_complete_quoted_word returns, on every return path,
\* cenv->complete and cenv->closure hold the values they had on entry.
C5_SinkRestored ==
  lastReturn.path # "none" =>
    /\ lastReturn.exit_complete = lastReturn.entry_complete
    /\ lastReturn.exit_closure = lastReturn.entry_closure

\* C9: with rewrite layers nested, a candidate of the innermost completer is
\* rewritten by the inner layer, then handed to the sink that was active when
\* that layer was installed, together with that sink's own argument; it
\* passes each layer once and so reaches the originally active sink.
C9_NestedForwarding ==
  proposal.depth >= 2 =>
    /\ pc \notin {"overflow", "undefined"}
    /\ (call.fn # "none" /\ call.hops >= 1) =>
         /\ NoDuplicates(call.via)
         /\ call.via[Len(call.via)] \in 1..Len(stack)
         /\ call.fn \in {stack[call.via[Len(call.via)]].entry_complete, "returned"}
         /\ call.closure = stack[call.via[Len(call.via)]].entry_closure

\* ------------------------------------------------------ claims on files
\* filename_complete_indir is running.
InIndir == pc \in {"fc_entry", "sink", "fc_added", "fc_next"}

\* C1: with a relative prefix and several roots, once the sink returns false
\* for a proposed candidate, no further directory entry is fetched, no later
\* root is enumerated and no further candidate is proposed in that call.
C1_StopEndsEnumeration == stopped => afterStop = 0

\* C10: every directory handle filename_complete_indir opens is closed before
\* it returns, whatever the directory holds (nothing at all included) and
\* however the enumeration ends; none is open after rp_complete_filename.
C10_HandlesClosed == ~InIndir => handles = {}

\* The roots of a roots string, split on ";".
RECURSIVE SplitRoots(_)
SplitRoots(roots) ==
  IF \A i \in 1..Len(roots) : roots[i] # ";" THEN <<roots>>
  ELSE LET k == CHOOSE i \in 1..Len(roots) :
                  roots[i] = ";" /\ \A j \in 1..(i - 1) : roots[j] # ";"
       IN <<SubSeq(roots, 1, k - 1)>> \o SplitRoots(SubSeq(roots, k + 1, Len(roots)))

IsPrefixOf(p, str) == \E k \in 0..Len(str) : SubSeq(str, 1, k) = p

\* The entries of a listing to propose for root i, in directory order.
RECURSIVE MatchingOf(_, _)
MatchingOf(listing, i) ==
  IF listing = <<>> THEN <<>>
  ELSE (IF Head(listing) \notin {DOT, DOTDOT} /\ IsPrefixOf(BasePrefix, Head(listing))
        THEN <<[rootix |-> i, name |-> Head(listing)]>> ELSE <<>>)
       \o MatchingOf(Tail(listing), i)

\* The matching entries of the first n enumerated directories, root by root.
RECURSIVE ExpectedUpTo(_)
ExpectedUpTo(n) ==
  IF n = 0 THEN <<>>
  ELSE ExpectedUpTo(n - 1) \o MatchingOf(dirs[n].listing, n)

Proposed == [i \in 1..Len(emitted) |->
               [rootix |-> emitted[i].rootix, name |-> emitted[i].name]]

RootOrder == \A i, j \in 1..Len(emitted) : i < j => emitted[i].rootix <= emitted[j].rootix

\* filename_completer has gone through the roots of a relative prefix.
RelativeDone == pc = "fc_return" /\ fc.alloc /\ ~fc.abs

\* C8 as stated: the candidates are emitted root by root in list order, each
\* root in full: every matching entry of every root is proposed.
C8_EveryRootInFull ==
  RelativeDone =>
    /\ RootOrder
    /\ Len(dirs) = Len(SplitRoots(fclosure.roots))
    /\ Proposed = ExpectedUpTo(Len(dirs))

\* The directory path of the i-th root for the word: root + "/" + the
\* directory part of the word.
ExpectedRootDir(i) ==
  SplitRoots(fclosure.roots)[i] \o <<"/">>
    \o (IF fc.dir_prefix = <<>> THEN <<>>
        ELSE SubSeq(fc.dir_prefix, 1, Len(fc.dir_prefix) - 1))

Rejected == {i \in 1..Len(emitted) : ~emitted[i].ok}

\* C8 amended: the candidates are emitted root by root in list order; up to
\* and including the first candidate the sink returns false for, they are the
\* matching entries of r1, then r2, ..., each root in full; and when the sink
\* returns false for none, every matching entry of every root is proposed.
C8_RootsInFullUntilStop ==
  RelativeDone =>
    /\ RootOrder
    /\ Len(dirs) <= Len(SplitRoots(fclosure.roots))
    /\ \A i \in 1..Len(dirs) : dirs[i].root_dir = ExpectedRootDir(i)
    /\ IF Rejected = {}
       THEN /\ Len(dirs) = Len(SplitRoots(fclosure.roots))
            /\ Proposed = ExpectedUpTo(Len(dirs))
       ELSE LET k == CHOOSE i \in Rejected : \A j \in Rejected : i <= j
                X == ExpectedUpTo(Len(dirs))
            IN /\ k <= Len(X)
               /\ SubSeq(Proposed, 1, k) = SubSeq(X, 1, k)

\* Two roots enumerated, entries of both proposed and all accepted.
C8_Witness ==
  /\ RelativeDone
  /\ Len(dirs) = 2
  /\ Rejected = {}
  /\ \E i, j \in 1..Len(emitted) : emitted[i].rootix = 1 /\ emitted[j].rootix = 2

\* rp_complete_filename has been called and has returned.
FilenameReturned == fclosure # NoFclosure /\ stack = <<>> /\ pc \in {"run", "done"}

\* C11: after rp_complete_filename returns, on any path (the empty-word early
\* return included), cenv->arg holds the value it had before the call (the
\* argument registered with the completer), so that nothing in the completion
\* environment refers to the filename closure of the call any more.
C11_ArgRestored == FilenameReturned => cenv.arg = USERARG

=============================================================================
